---- MODULE Spec2Model ----
(***************************************************************************)
(* Board Service (src/app.py): a Flask application over one SQLite file.   *)
(*                                                                         *)
(* State: the four tables of init_db, the two AUTOINCREMENT sequences, and *)
(* for every HTTP client its session cookie and the position of its        *)
(* request in flight; resp is the response the latest step sent, if any.   *)
(*                                                                         *)
(* Granularity: every handler is cut at the points where it commits or     *)
(* where it opens a new read on the store.  get_db() opens a fresh         *)
(* connection per use and the sqlite3 module opens a transaction only in   *)
(* front of INSERT/UPDATE/DELETE, so a SELECT and the write that follows   *)
(* it are two steps, while the statements between an implicit BEGIN and    *)
(* db.commit() are one step: SQLite shows other connections nothing of a   *)
(* transaction before its commit.                                          *)
(*                                                                         *)
(* A writer that finds the file locked waits (sqlite3's busy timeout); the  *)
(* model lets it wait and leaves the timeout's OperationalError out.       *)
(*                                                                         *)
(* Foreign keys are declared by init_db but get_db never issues            *)
(* PRAGMA foreign_keys = ON, so SQLite does not enforce them; PRIMARY KEY  *)
(* constraints are enforced.  users and likes are bags, so that a row      *)
(* stored twice is a state the model can be in.  DELETE leaves             *)
(* sqlite_sequence alone: ids of AUTOINCREMENT tables are never reused.    *)
(*                                                                         *)
(* Text is a sequence of one-character strings so that str.strip() is      *)
(* modelled by what it does.  Columns no property reads (description,      *)
(* video_url, github_url, created_at) are left out of the rows.            *)
(***************************************************************************)
EXTENDS Naturals, Sequences, FiniteSets, Bags, TLC

VARIABLES users, posts, comments, likes, seq_posts, seq_comments, session, pc, resp

vars == <<users, posts, comments, likes, seq_posts, seq_comments, session, pc, resp>>

db == <<users, posts, comments, likes, seq_posts, seq_comments>>

(***************************************************************************)
(* Bounds and input alphabets                                              *)
(***************************************************************************)
\* number of rows the posts sequence (sqlite_sequence) may hand out
MaxPosts == 1
\* number of rows the comments sequence may hand out
MaxComments == 1

Clients == {"c1", "c2"}

SP == " "

EMPTY == <<>>

UsernameInputs == {<<SP>>, <<"a">>, <<SP, "b", SP>>}

FirstNameInputs == {<<>>, <<"A">>, <<SP, "B">>}

PortfolioInputs == {<<>>, <<"x", SP>>}

\* first names offered to login where the board is explored
BoardNames == {<<>>, <<"A">>}

TitleInputs == {<<SP>>, <<SP, "t">>}

ContentInputs == {<<SP>>, <<"k", SP>>}

(***************************************************************************)
(* str.strip(): drop leading and trailing whitespace, keep the inside      *)
(***************************************************************************)
RECURSIVE LStrip(_)
LStrip(s) == IF s = <<>> THEN s
             ELSE IF Head(s) = SP THEN LStrip(Tail(s)) ELSE s

RECURSIVE RStrip(_)
RStrip(s) == IF s = <<>> THEN s
             ELSE IF s[Len(s)] = SP THEN RStrip(SubSeq(s, 1, Len(s) - 1)) ELSE s

Strip(s) == RStrip(LStrip(s))

(***************************************************************************)
(* Rows                                                                    *)
(***************************************************************************)
UserRow(username, first_name, portfolio_url) ==
    [username |-> username, first_name |-> first_name, portfolio_url |-> portfolio_url]

PostRow(id, username, title) == [id |-> id, username |-> username, title |-> title]

CommentRow(id, post_id, username, content) ==
    [id |-> id, post_id |-> post_id, username |-> username, content |-> content]

LikeRow(post_id, username) == [post_id |-> post_id, username |-> username]

\* rows of a table (a bag) that satisfy a WHERE clause
Rows(table) == BagToSet(table)

\* DELETE FROM table WHERE row \in gone
DeleteRows(table, gone) == [r \in (DOMAIN table) \ gone |-> table[r]]

\* cursor.fetchone(): no row, or one of the rows selected
FetchOne(rows) == IF rows = {} THEN {} ELSE {CHOOSE r \in rows : TRUE}

(***************************************************************************)
(* Request position and response records                                   *)
(***************************************************************************)
\* a handler's position and the locals it still needs
Idle == [at |-> "idle", username |-> EMPTY, text |-> EMPTY, url |-> EMPTY, id |-> 0,
         flag |-> FALSE, count |-> 0, comment_count |-> 0, todo |-> <<>>, done |-> <<>>]

At(c, label) == pc[c].at = label

\* op, client, username and id say which request is answered; the rest is the
\* answer.  comment_count is the set of values of the JSON key of that name: no
\* value where the answer has no such key.  posts is the list get_posts returns.
Response(op, status) ==
    [op |-> op, status |-> status, client |-> "", username |-> EMPTY, user |-> {},
     flag |-> FALSE, count |-> 0, comment_count |-> {}, id |-> 0, rows |-> {},
     posts |-> <<>>]

NoResponse == Response("none", 0)

\* the handler returns r to client c
Reply(c, r) == /\ resp' = [r EXCEPT !.client = c]
               /\ pc' = [pc EXCEPT ![c] = Idle]

\* the handler goes on to its next statement
Goto(c, p) == /\ pc' = [pc EXCEPT ![c] = p]
              /\ resp' = NoResponse

(***************************************************************************)
(* Data-access helpers                                                     *)
(***************************************************************************)
get_user_by_username(username) ==
    FetchOne({u \in Rows(users) : u.username = username})

\* mutant: the INSERT binds first_name to the portfolio_url column too
new_user_row_url_from_name(username, first_name) == UserRow(username, first_name, first_name)

\* the row create_user inserts: portfolio_url is ''
new_user_row(username, first_name) == UserRow(username, first_name, EMPTY)

\* mutant: the users table declared without its PRIMARY KEY
create_user_conflict_no_key(username) == FALSE

\* the INSERT of create_user; users.username is the PRIMARY KEY
create_user_conflict(username) == \E u \in Rows(users) : u.username = username

Init ==
    /\ users = EmptyBag
    /\ posts = {}
    /\ comments = {}
    /\ likes = EmptyBag
    /\ seq_posts = 0
    /\ seq_comments = 0
    /\ session = [c \in Clients |-> EMPTY]
    /\ pc = [c \in Clients |-> Idle]
    /\ resp = NoResponse

(***************************************************************************)
(* POST /api/login                                                         *)
(***************************************************************************)
login(c, raw_username, raw_first_name) ==
    /\ At(c, "idle")
    /\ LET username == Strip(raw_username)
           first_name == Strip(raw_first_name)
           user == get_user_by_username(username)
       IN  IF username = EMPTY
           THEN /\ Reply(c, Response("login", 400))
                /\ UNCHANGED session
           ELSE IF user # {}
           THEN /\ session' = [session EXCEPT ![c] = username]
                /\ Reply(c, [Response("login", 200) EXCEPT
                                 !.username = username, !.user = user, !.flag = TRUE])
           ELSE IF first_name = EMPTY
           THEN /\ Reply(c, [Response("login", 400) EXCEPT !.username = username])
                /\ UNCHANGED session
           ELSE /\ Goto(c, [Idle EXCEPT !.at = "create_user",
                                        !.username = username, !.text = first_name])
                /\ UNCHANGED session
    /\ UNCHANGED db

\* create_user: INSERT and commit, or IntegrityError -> None -> 500
create_user(c) ==
    /\ At(c, "create_user")
    /\ IF create_user_conflict(pc[c].username)
       THEN /\ Reply(c, [Response("login", 500) EXCEPT !.username = pc[c].username])
            /\ UNCHANGED users
       ELSE /\ users' = users (+) SetToBag({new_user_row(pc[c].username, pc[c].text)})
            /\ Goto(c, [pc[c] EXCEPT !.at = "create_user_read"])
    /\ UNCHANGED <<posts, comments, likes, seq_posts, seq_comments, session>>

\* create_user re-reads the row through get_user_by_username, then login answers
create_user_read(c) ==
    /\ At(c, "create_user_read")
    /\ LET user == get_user_by_username(pc[c].username)
       IN  IF user = {}
           THEN /\ Reply(c, [Response("login", 500) EXCEPT !.username = pc[c].username])
                /\ UNCHANGED session
           ELSE /\ session' = [session EXCEPT ![c] = pc[c].username]
                /\ Reply(c, [Response("login", 200) EXCEPT
                                 !.username = pc[c].username, !.user = user])
    /\ UNCHANGED db

(***************************************************************************)
(* POST /api/logout                                                        *)
(***************************************************************************)
\* mutant: logout answers without session.pop('username', None)
logout_keeps_session(c) ==
    /\ At(c, "idle")
    /\ Reply(c, Response("logout", 200))
    /\ UNCHANGED <<db, session>>

logout(c) ==
    /\ At(c, "idle")
    /\ session' = [session EXCEPT ![c] = EMPTY]
    /\ Reply(c, Response("logout", 200))
    /\ UNCHANGED db

(***************************************************************************)
(* POST /api/check-username                                                *)
(***************************************************************************)
check_username(c, raw_username) ==
    /\ At(c, "idle")
    /\ LET username == Strip(raw_username)
           user == get_user_by_username(username)
       IN  IF username = EMPTY
           THEN Reply(c, Response("check_username", 400))
           ELSE Reply(c, [Response("check_username", 200) EXCEPT
                              !.user = user, !.flag = (user # {})])
    /\ UNCHANGED <<db, session>>

(***************************************************************************)
(* GET /api/current-user                                                   *)
(***************************************************************************)
\* mutant: the lookup forgets its WHERE clause and answers with any stored user
current_user_response_any_row(username) ==
    IF username = EMPTY
    THEN Response("current_user", 401)
    ELSE LET user == FetchOne(Rows(users))
         IN  IF user = {}
             THEN Response("current_user", 404)
             ELSE [Response("current_user", 200) EXCEPT !.user = user]

current_user_response(username) ==
    IF username = EMPTY
    THEN Response("current_user", 401)
    ELSE LET user == get_user_by_username(username)
         IN  IF user = {}
             THEN Response("current_user", 404)
             ELSE [Response("current_user", 200) EXCEPT !.user = user]

current_user(c) ==
    /\ At(c, "idle")
    /\ Reply(c, current_user_response(session[c]))
    /\ UNCHANGED <<db, session>>

(***************************************************************************)
(* PUT /api/profile                                                        *)
(***************************************************************************)
\* mutant: portfolio_url is guarded like first_name
update_profile_rows_both_guarded(username, first_name, portfolio_url) ==
    LET SetName(u) == IF u.username = username /\ first_name # EMPTY
                      THEN [u EXCEPT !.first_name = first_name] ELSE u
        SetUrl(u) == IF u.username = username /\ portfolio_url # EMPTY
                     THEN [u EXCEPT !.portfolio_url = portfolio_url] ELSE u
    IN  BagOfAll(SetUrl, BagOfAll(SetName, users))

\* mutant: the UPDATE of portfolio_url without its WHERE clause
update_profile_rows_no_where(username, first_name, portfolio_url) ==
    LET SetName(u) == IF u.username = username /\ first_name # EMPTY
                      THEN [u EXCEPT !.first_name = first_name] ELSE u
        SetUrl(u) == [u EXCEPT !.portfolio_url = portfolio_url]
    IN  BagOfAll(SetUrl, BagOfAll(SetName, users))

\* the two UPDATE statements of update_profile, committed together
update_profile_rows(username, first_name, portfolio_url) ==
    LET SetName(u) == IF u.username = username /\ first_name # EMPTY
                      THEN [u EXCEPT !.first_name = first_name] ELSE u
        SetUrl(u) == IF u.username = username
                     THEN [u EXCEPT !.portfolio_url = portfolio_url] ELSE u
    IN  BagOfAll(SetUrl, BagOfAll(SetName, users))

update_profile(c, raw_first_name, raw_portfolio_url) ==
    /\ At(c, "idle")
    /\ IF session[c] = EMPTY
       THEN /\ Reply(c, Response("update_profile", 401))
            /\ UNCHANGED users
       ELSE /\ users' = update_profile_rows(session[c], Strip(raw_first_name),
                                            Strip(raw_portfolio_url))
            /\ Goto(c, [Idle EXCEPT !.at = "update_profile_read",
                                    !.username = session[c],
                                    !.text = Strip(raw_first_name),
                                    !.url = Strip(raw_portfolio_url)])
    /\ UNCHANGED <<posts, comments, likes, seq_posts, seq_comments, session>>

\* the handler reads the row back on a new connection and answers with it
update_profile_read(c) ==
    /\ At(c, "update_profile_read")
    /\ Reply(c, [Response("update_profile", 200) EXCEPT
                     !.username = pc[c].username,
                     !.user = get_user_by_username(pc[c].username)])
    /\ UNCHANGED <<db, session>>

(***************************************************************************)
(* POST /api/admin/clear-all                                               *)
(***************************************************************************)
\* mutant: a server-side session table emptied for every client
clear_session_everywhere(c) == [d \in Clients |-> EMPTY]

\* session.clear(): flask's session is the cookie of the client making the request
clear_session(c) == [session EXCEPT ![c] = EMPTY]

clear_all_data(c) ==
    /\ At(c, "idle")
    /\ likes' = EmptyBag
    /\ comments' = {}
    /\ posts' = {}
    /\ users' = EmptyBag
    /\ session' = clear_session(c)
    /\ Reply(c, Response("clear_all_data", 200))
    /\ UNCHANGED <<seq_posts, seq_comments>>

(***************************************************************************)
(* Board: data-access helpers                                              *)
(***************************************************************************)
PostIds == 1 .. MaxPosts

CommentIds == 1 .. MaxComments

\* SELECT * FROM posts WHERE id = ?
select_post(post_id) == FetchOne({p \in posts : p.id = post_id})

\* SELECT p.*, u.first_name FROM posts p JOIN users u ON p.username = u.username
\* WHERE p.id = ?
select_post_with_owner(post_id) ==
    FetchOne({p \in posts : /\ p.id = post_id
                            /\ \E u \in Rows(users) : u.username = p.username})

\* SELECT * FROM comments WHERE id = ?
select_comment(comment_id) == FetchOne({k \in comments : k.id = comment_id})

\* SELECT c.*, u.first_name FROM comments c JOIN users u ... WHERE c.post_id = ?
select_comments_with_author(post_id) ==
    {k \in comments : /\ k.post_id = post_id
                      /\ \E u \in Rows(users) : u.username = k.username}

\* SELECT * FROM likes WHERE post_id = ? AND username = ?
select_like(post_id, username) ==
    FetchOne({l \in Rows(likes) : l.post_id = post_id /\ l.username = username})

\* mutant: the likes table declared without its PRIMARY KEY
like_conflict_no_key(post_id, username) == FALSE

\* likes has PRIMARY KEY (post_id, username): the INSERT raises IntegrityError
like_conflict(post_id, username) == BagIn(LikeRow(post_id, username), likes)

\* mutant: the DELETE of toggle_like drops "AND username = ?"
toggle_like_rows_delete_all(existing_like, post_id, username) ==
    IF existing_like
    THEN DeleteRows(likes, {l \in Rows(likes) : l.post_id = post_id})
    ELSE likes (+) SetToBag({LikeRow(post_id, username)})

\* toggle_like after its SELECT: DELETE the like if one was seen, else INSERT it
toggle_like_rows(existing_like, post_id, username) ==
    IF existing_like
    THEN DeleteRows(likes, {LikeRow(post_id, username)})
    ELSE likes (+) SetToBag({LikeRow(post_id, username)})

get_like_count(post_id) ==
    BagCardinality(DeleteRows(likes, {l \in Rows(likes) : l.post_id # post_id}))

get_comment_count(post_id) == Cardinality({k \in comments : k.post_id = post_id})

user_liked_post(post_id, username) ==
    IF username = EMPTY THEN FALSE ELSE select_like(post_id, username) # {}

\* the three DELETE statements of delete_post
delete_post_likes(post_id) == DeleteRows(likes, {l \in Rows(likes) : l.post_id = post_id})

\* mutant: delete_post without its DELETE FROM comments
delete_post_comments_kept(post_id) == comments

delete_post_comments(post_id) == {k \in comments : k.post_id # post_id}

\* mutant: the DELETE FROM posts left to a later transaction
delete_post_posts_later(post_id) == posts

delete_post_posts(post_id) == {p \in posts : p.id # post_id}

\* requests in flight that are going to draw from a sequence: an INSERT is
\* taken up only while the bound leaves it an id
InFlight(label) == Cardinality({c \in Clients : At(c, label)})

(***************************************************************************)
(* POST /api/posts                                                         *)
(***************************************************************************)
create_post_route(c, raw_title) ==
    /\ At(c, "idle")
    /\ LET username == session[c]
           title == Strip(raw_title)
           id == seq_posts + 1
       IN  IF username = EMPTY
           THEN /\ Reply(c, Response("create_post", 401))
                /\ UNCHANGED <<posts, seq_posts>>
           ELSE IF title = EMPTY
           THEN /\ Reply(c, Response("create_post", 400))
                /\ UNCHANGED <<posts, seq_posts>>
           ELSE /\ seq_posts < MaxPosts
                /\ posts' = posts \cup {PostRow(id, username, title)}
                /\ seq_posts' = id
                /\ Goto(c, [Idle EXCEPT !.at = "create_post_read", !.id = id])
    /\ UNCHANGED <<users, comments, likes, seq_comments, session>>

\* create_post selects the row back by cursor.lastrowid; dict(None) is a TypeError
create_post_read(c) ==
    /\ At(c, "create_post_read")
    /\ LET post == select_post(pc[c].id)
       IN  IF post = {}
           THEN Reply(c, Response("create_post", 500))
           ELSE Reply(c, [Response("create_post", 201) EXCEPT !.id = pc[c].id, !.rows = post])
    /\ UNCHANGED <<db, session>>

(***************************************************************************)
(* GET /api/posts/<id>                                                     *)
(***************************************************************************)
get_post(c, post_id) ==
    /\ At(c, "idle")
    /\ IF select_post_with_owner(post_id) = {}
       THEN Reply(c, [Response("get_post", 404) EXCEPT !.id = post_id])
       ELSE Goto(c, [Idle EXCEPT !.at = "get_post_like_count", !.id = post_id])
    /\ UNCHANGED <<db, session>>

get_post_like_count(c) ==
    /\ At(c, "get_post_like_count")
    /\ Goto(c, [pc[c] EXCEPT !.at = "get_post_liked", !.count = get_like_count(pc[c].id)])
    /\ UNCHANGED <<db, session>>

get_post_liked(c) ==
    /\ At(c, "get_post_liked")
    /\ Goto(c, [pc[c] EXCEPT !.at = "get_post_comments",
                             !.flag = user_liked_post(pc[c].id, session[c])])
    /\ UNCHANGED <<db, session>>

\* mutant: get_post adds the comment_count key as get_posts does
get_post_comments_with_count(c) ==
    /\ At(c, "get_post_comments")
    /\ Reply(c, [Response("get_post", 200) EXCEPT
                     !.id = pc[c].id, !.count = pc[c].count, !.flag = pc[c].flag,
                     !.comment_count = {get_comment_count(pc[c].id)},
                     !.rows = select_comments_with_author(pc[c].id)])
    /\ UNCHANGED <<db, session>>

get_post_comments(c) ==
    /\ At(c, "get_post_comments")
    /\ Reply(c, [Response("get_post", 200) EXCEPT
                     !.id = pc[c].id, !.count = pc[c].count, !.flag = pc[c].flag,
                     !.rows = select_comments_with_author(pc[c].id)])
    /\ UNCHANGED <<db, session>>

(***************************************************************************)
(* GET /api/posts                                                          *)
(***************************************************************************)
\* ORDER BY created_at DESC: created_at is datetime.now() at the INSERT and ids
\* are handed out in the order of the INSERTs, so the newest row has the
\* greatest id
RECURSIVE NewestFirst(_)
NewestFirst(rows) ==
    IF rows = {} THEN <<>>
    ELSE LET newest == CHOOSE p \in rows : \A q \in rows : q.id <= p.id
         IN  <<newest>> \o NewestFirst(rows \ {newest})

\* SELECT p.*, u.first_name FROM posts p JOIN users u ON p.username = u.username
\* ORDER BY p.created_at DESC
select_posts_with_owner ==
    NewestFirst({p \in posts : \E u \in Rows(users) : u.username = p.username})

\* post_dict with the three keys the loop adds
PostWithData(post, like_count, comment_count, liked_by_user) ==
    [id |-> post.id, username |-> post.username, title |-> post.title,
     like_count |-> like_count, comment_count |-> comment_count,
     liked_by_user |-> liked_by_user]

\* the SELECT; with no row the loop is skipped
get_posts(c) ==
    /\ At(c, "idle")
    /\ IF select_posts_with_owner = <<>>
       THEN Reply(c, Response("get_posts", 200))
       ELSE Goto(c, [Idle EXCEPT !.at = "get_posts_like_count",
                                 !.todo = select_posts_with_owner])
    /\ UNCHANGED <<db, session>>

\* the loop body: three helpers, each on a connection of its own
get_posts_like_count(c) ==
    /\ At(c, "get_posts_like_count")
    /\ Goto(c, [pc[c] EXCEPT !.at = "get_posts_comment_count",
                             !.count = get_like_count(Head(pc[c].todo).id)])
    /\ UNCHANGED <<db, session>>

get_posts_comment_count(c) ==
    /\ At(c, "get_posts_comment_count")
    /\ Goto(c, [pc[c] EXCEPT !.at = "get_posts_liked",
                             !.comment_count = get_comment_count(Head(pc[c].todo).id)])
    /\ UNCHANGED <<db, session>>

\* the last helper of the loop body; after the last post the handler answers
get_posts_liked(c) ==
    /\ At(c, "get_posts_liked")
    /\ LET post == Head(pc[c].todo)
           posts_with_data ==
               Append(pc[c].done,
                      PostWithData(post, pc[c].count, pc[c].comment_count,
                                   user_liked_post(post.id, session[c])))
       IN  IF Tail(pc[c].todo) = <<>>
           THEN Reply(c, [Response("get_posts", 200) EXCEPT !.posts = posts_with_data])
           ELSE Goto(c, [Idle EXCEPT !.at = "get_posts_like_count",
                                     !.todo = Tail(pc[c].todo),
                                     !.done = posts_with_data])
    /\ UNCHANGED <<db, session>>

(***************************************************************************)
(* POST /api/posts/<id>/like                                               *)
(***************************************************************************)
like_post(c, post_id) ==
    /\ At(c, "idle")
    /\ IF session[c] = EMPTY
       THEN Reply(c, [Response("like_post", 401) EXCEPT !.id = post_id])
       ELSE IF select_post(post_id) = {}
       THEN Reply(c, [Response("like_post", 404) EXCEPT !.id = post_id])
       ELSE Goto(c, [Idle EXCEPT !.at = "toggle_like", !.id = post_id,
                                 !.username = session[c]])
    /\ UNCHANGED <<db, session>>

\* toggle_like: the SELECT for an existing like
toggle_like(c) ==
    /\ At(c, "toggle_like")
    /\ Goto(c, [pc[c] EXCEPT !.at = "toggle_like_write",
                             !.flag = (select_like(pc[c].id, pc[c].username) # {})])
    /\ UNCHANGED <<db, session>>

\* toggle_like: the DELETE or the INSERT, committed; an IntegrityError is not caught
toggle_like_write(c) ==
    /\ At(c, "toggle_like_write")
    /\ IF ~pc[c].flag /\ like_conflict(pc[c].id, pc[c].username)
       THEN /\ Reply(c, [Response("like_post", 500) EXCEPT !.id = pc[c].id])
            /\ UNCHANGED likes
       ELSE /\ likes' = toggle_like_rows(pc[c].flag, pc[c].id, pc[c].username)
            /\ Goto(c, [pc[c] EXCEPT !.at = "like_post_count", !.flag = ~pc[c].flag])
    /\ UNCHANGED <<users, posts, comments, seq_posts, seq_comments, session>>

like_post_count(c) ==
    /\ At(c, "like_post_count")
    /\ Reply(c, [Response("like_post", 200) EXCEPT
                     !.id = pc[c].id, !.flag = pc[c].flag,
                     !.count = get_like_count(pc[c].id)])
    /\ UNCHANGED <<db, session>>

(***************************************************************************)
(* POST /api/posts/<id>/comments                                           *)
(***************************************************************************)
\* mutant: the content is checked before the post is looked up
add_comment_route_content_first(c, post_id, raw_content) ==
    /\ At(c, "idle")
    /\ LET content == Strip(raw_content)
       IN  IF session[c] = EMPTY
           THEN Reply(c, [Response("add_comment", 401) EXCEPT !.id = post_id])
           ELSE IF content = EMPTY
           THEN Reply(c, [Response("add_comment", 400) EXCEPT !.id = post_id])
           ELSE IF select_post(post_id) = {}
           THEN Reply(c, [Response("add_comment", 404) EXCEPT !.id = post_id])
           ELSE /\ seq_comments + InFlight("add_comment") < MaxComments
                /\ Goto(c, [Idle EXCEPT !.at = "add_comment", !.id = post_id,
                                        !.username = session[c], !.text = content])
    /\ UNCHANGED <<db, session>>

add_comment_route(c, post_id, raw_content) ==
    /\ At(c, "idle")
    /\ LET content == Strip(raw_content)
       IN  IF session[c] = EMPTY
           THEN Reply(c, [Response("add_comment", 401) EXCEPT !.id = post_id])
           ELSE IF select_post(post_id) = {}
           THEN Reply(c, [Response("add_comment", 404) EXCEPT !.id = post_id])
           ELSE IF content = EMPTY
           THEN Reply(c, [Response("add_comment", 400) EXCEPT !.id = post_id])
           ELSE /\ seq_comments + InFlight("add_comment") < MaxComments
                /\ Goto(c, [Idle EXCEPT !.at = "add_comment", !.id = post_id,
                                        !.username = session[c], !.text = content])
    /\ UNCHANGED <<db, session>>

\* add_comment: INSERT and commit
add_comment(c) ==
    /\ At(c, "add_comment")
    /\ LET id == seq_comments + 1
       IN  /\ comments' = comments \cup
                              {CommentRow(id, pc[c].id, pc[c].username, pc[c].text)}
           /\ seq_comments' = id
           /\ Goto(c, [Idle EXCEPT !.at = "add_comment_read", !.id = id])
    /\ UNCHANGED <<users, posts, likes, seq_posts, session>>

\* add_comment selects the row back by cursor.lastrowid
add_comment_read(c) ==
    /\ At(c, "add_comment_read")
    /\ Reply(c, [Response("add_comment", 201) EXCEPT
                     !.id = pc[c].id, !.rows = select_comment(pc[c].id)])
    /\ UNCHANGED <<db, session>>

(***************************************************************************)
(* DELETE /api/posts/<id>                                                  *)
(***************************************************************************)
delete_post(c, post_id) ==
    /\ At(c, "idle")
    /\ LET post == select_post(post_id)
       IN  IF session[c] = EMPTY
           THEN Reply(c, [Response("delete_post", 401) EXCEPT !.id = post_id])
           ELSE IF post = {}
           THEN Reply(c, [Response("delete_post", 404) EXCEPT !.id = post_id])
           ELSE IF \E p \in post : p.username # session[c]
           THEN Reply(c, [Response("delete_post", 403) EXCEPT !.id = post_id])
           ELSE Goto(c, [Idle EXCEPT !.at = "delete_post_commit", !.id = post_id])
    /\ UNCHANGED <<db, session>>

\* the DELETEs on likes, comments and posts, committed together
delete_post_commit(c) ==
    /\ At(c, "delete_post_commit")
    /\ likes' = delete_post_likes(pc[c].id)
    /\ comments' = delete_post_comments(pc[c].id)
    /\ posts' = delete_post_posts(pc[c].id)
    /\ Reply(c, [Response("delete_post", 200) EXCEPT !.id = pc[c].id])
    /\ UNCHANGED <<users, seq_posts, seq_comments, session>>

(***************************************************************************)
(* DELETE /api/comments/<id>                                               *)
(***************************************************************************)
\* mutant: the owner of the parent post may delete the comment too
delete_comment_post_owner(c, comment_id) ==
    /\ At(c, "idle")
    /\ LET comment == select_comment(comment_id)
       IN  IF session[c] = EMPTY
           THEN Reply(c, [Response("delete_comment", 401) EXCEPT !.id = comment_id])
           ELSE IF comment = {}
           THEN Reply(c, [Response("delete_comment", 404) EXCEPT !.id = comment_id])
           ELSE IF \E k \in comment :
                      /\ k.username # session[c]
                      /\ \A q \in select_post(k.post_id) : q.username # session[c]
           THEN Reply(c, [Response("delete_comment", 403) EXCEPT !.id = comment_id])
           ELSE Goto(c, [Idle EXCEPT !.at = "delete_comment_commit", !.id = comment_id])
    /\ UNCHANGED <<db, session>>

delete_comment(c, comment_id) ==
    /\ At(c, "idle")
    /\ LET comment == select_comment(comment_id)
       IN  IF session[c] = EMPTY
           THEN Reply(c, [Response("delete_comment", 401) EXCEPT !.id = comment_id])
           ELSE IF comment = {}
           THEN Reply(c, [Response("delete_comment", 404) EXCEPT !.id = comment_id])
           ELSE IF \E k \in comment : k.username # session[c]
           THEN Reply(c, [Response("delete_comment", 403) EXCEPT !.id = comment_id])
           ELSE Goto(c, [Idle EXCEPT !.at = "delete_comment_commit", !.id = comment_id])
    /\ UNCHANGED <<db, session>>

delete_comment_commit(c) ==
    /\ At(c, "delete_comment_commit")
    /\ comments' = {k \in comments : k.id # pc[c].id}
    /\ Reply(c, [Response("delete_comment", 200) EXCEPT !.id = pc[c].id])
    /\ UNCHANGED <<users, posts, likes, seq_posts, seq_comments, session>>

(***************************************************************************)
(* Specifications.  Spec is every handler of every client interleaved at   *)
(* the statement boundaries above.  The others are the same actions over   *)
(* the same state, restricted to the requests a group of properties is     *)
(* about:                                                                  *)
(*   SpecIdentity  sessions and profiles                                   *)
(*   SpecLogin     logins only                                             *)
(*   SpecBoard     the board with the wipe                                 *)
(*   SpecPosts     the board without the wipe                              *)
(*   SpecObserved  the board without the wipe, with get_posts              *)
(*   SpecLikes     posts and likes                                         *)
(*   SpecSolo      the board used by one client                            *)
(*   SpecSerial    two clients filling and wiping the board, one request   *)
(*                 at a time                                               *)
(*   SpecList      the same and get_posts                                  *)
(*   SpecAccount   one client writing to the board and to its profile      *)
(* GET /api/users/<username> runs the loop of get_posts over one user's    *)
(* posts and is not among the actions.                                     *)
(***************************************************************************)
\* session and identity requests
IdentityNext ==
    \E c \in Clients :
        \/ \E u \in UsernameInputs, f \in FirstNameInputs : login(c, u, f)
        \/ create_user(c)
        \/ create_user_read(c)
        \/ logout(c)
        \/ \E u \in UsernameInputs : check_username(c, u)
        \/ current_user(c)
        \/ \E f \in FirstNameInputs, p \in PortfolioInputs : update_profile(c, f, p)
        \/ update_profile_read(c)
        \/ clear_all_data(c)

\* logins only, racing
LoginNext ==
    \E c \in Clients :
        \/ \E u \in UsernameInputs, f \in FirstNameInputs : login(c, u, f)
        \/ create_user(c)
        \/ create_user_read(c)

\* requests on posts, comments and likes, with the session requests they need
PostsStep(c) ==
        \/ \E u \in UsernameInputs, f \in BoardNames : login(c, u, f)
        \/ create_user(c)
        \/ create_user_read(c)
        \/ logout(c)
        \/ \E t \in TitleInputs : create_post_route(c, t)
        \/ create_post_read(c)
        \/ \E p \in PostIds : get_post(c, p)
        \/ get_post_like_count(c)
        \/ get_post_liked(c)
        \/ get_post_comments(c)
        \/ \E p \in PostIds : like_post(c, p)
        \/ toggle_like(c)
        \/ toggle_like_write(c)
        \/ like_post_count(c)
        \/ \E p \in PostIds, k \in ContentInputs : add_comment_route(c, p, k)
        \/ add_comment(c)
        \/ add_comment_read(c)
        \/ \E p \in PostIds : delete_post(c, p)
        \/ delete_post_commit(c)
        \/ \E k \in CommentIds : delete_comment(c, k)
        \/ delete_comment_commit(c)

PostsNext == \E c \in Clients : PostsStep(c)

\* the same with get_posts: every reader and writer of a post and its children
ObservedNext ==
    \/ PostsNext
    \/ \E c \in Clients :
          \/ get_posts(c)
          \/ get_posts_like_count(c)
          \/ get_posts_comment_count(c)
          \/ get_posts_liked(c)

\* the same with the wipe
BoardNext == \E c \in Clients : PostsStep(c) \/ clear_all_data(c)

\* the board used by a single client, who may log in under either handle
SoloNext == PostsStep("c1") \/ clear_all_data("c1")

\* one request at a time: a request is taken up, and carried on, only while
\* no other client has one in flight; the requests are those that fill the
\* four tables and the one that wipes them
Alone(c) == \A d \in Clients \ {c} : At(d, "idle")

SerialNext ==
    \E c \in Clients :
        \/ Alone(c) /\ \E u \in UsernameInputs, f \in BoardNames : login(c, u, f)
        \/ Alone(c) /\ create_user(c)
        \/ Alone(c) /\ create_user_read(c)
        \/ Alone(c) /\ clear_all_data(c)
        \/ Alone(c) /\ \E t \in TitleInputs : create_post_route(c, t)
        \/ Alone(c) /\ create_post_read(c)
        \/ Alone(c) /\ \E p \in PostIds : like_post(c, p)
        \/ Alone(c) /\ toggle_like(c)
        \/ Alone(c) /\ toggle_like_write(c)
        \/ Alone(c) /\ like_post_count(c)
        \/ Alone(c) /\ \E p \in PostIds, k \in ContentInputs : add_comment_route(c, p, k)
        \/ Alone(c) /\ add_comment(c)
        \/ Alone(c) /\ add_comment_read(c)

\* the same requests and get_posts
ListNext ==
    \/ SerialNext
    \/ \E c \in Clients :
          \/ Alone(c) /\ get_posts(c)
          \/ Alone(c) /\ get_posts_like_count(c)
          \/ Alone(c) /\ get_posts_comment_count(c)
          \/ Alone(c) /\ get_posts_liked(c)

\* likes only: sessions, posts, their likes and the requests that delete them
LikesNext ==
    \E c \in Clients :
        \/ \E u \in UsernameInputs, f \in BoardNames : login(c, u, f)
        \/ create_user(c)
        \/ create_user_read(c)
        \/ logout(c)
        \/ clear_all_data(c)
        \/ \E t \in TitleInputs : create_post_route(c, t)
        \/ create_post_read(c)
        \/ \E p \in PostIds : like_post(c, p)
        \/ toggle_like(c)
        \/ toggle_like_write(c)
        \/ like_post_count(c)
        \/ \E p \in PostIds : delete_post(c, p)
        \/ delete_post_commit(c)

\* every request that needs a session, with login, logout and the wipe, sent by
\* one client; its profile update gives a new first name and a new URL
AccountNext ==
    \E c \in {"c1"} :
        \/ \E u \in UsernameInputs, f \in BoardNames : login(c, u, f)
        \/ create_user(c)
        \/ create_user_read(c)
        \/ logout(c)
        \/ update_profile(c, <<SP, "B">>, <<"x", SP>>)
        \/ update_profile_read(c)
        \/ clear_all_data(c)
        \/ \E t \in TitleInputs : create_post_route(c, t)
        \/ create_post_read(c)
        \/ \E p \in PostIds : like_post(c, p)
        \/ toggle_like(c)
        \/ toggle_like_write(c)
        \/ like_post_count(c)
        \/ \E p \in PostIds, k \in ContentInputs : add_comment_route(c, p, k)
        \/ add_comment(c)
        \/ add_comment_read(c)
        \/ \E p \in PostIds : delete_post(c, p)
        \/ delete_post_commit(c)
        \/ \E k \in CommentIds : delete_comment(c, k)
        \/ delete_comment_commit(c)

Next == IdentityNext \/ BoardNext \/ ListNext

Spec == Init /\ [][Next]_vars

SpecIdentity == Init /\ [][IdentityNext]_vars

SpecLogin == Init /\ [][LoginNext]_vars

SpecBoard == Init /\ [][BoardNext]_vars

SpecPosts == Init /\ [][PostsNext]_vars

SpecObserved == Init /\ [][ObservedNext]_vars

SpecSolo == Init /\ [][SoloNext]_vars

SpecSerial == Init /\ [][SerialNext]_vars

SpecLikes == Init /\ [][LikesNext]_vars

SpecAccount == Init /\ [][AccountNext]_vars

SpecList == Init /\ [][ListNext]_vars

(***************************************************************************)
(* Properties.  A step of client c is recognised by c's position before    *)
(* and after it; resp' is the response that step sent.                     *)
(***************************************************************************)
HasPost(post_id) == \E p \in posts : p.id = post_id

HasUser(username) == \E u \in Rows(users) : u.username = username

\* C1: a delete_post that succeeds (the session user owns post P) leaves no
\* comment, no like and no post row with post id P, whatever comments and likes
\* P had, and get_post on an id that has no post row answers 404 without going
\* on to read likes or comments.
C1_DeletePostCascades ==
    [][\A c \in Clients, P \in PostIds :
         /\ (At(c, "delete_post_commit") /\ pc[c].id = P /\ pc'[c].at = "idle")
                => /\ resp'.op = "delete_post" /\ resp'.status = 200
                   /\ \A k \in comments' : k.post_id # P
                   /\ \A l \in Rows(likes') : l.post_id # P
                   /\ \A p \in posts' : p.id # P
         /\ (At(c, "idle") /\ ~HasPost(P))
                => /\ ~(pc'[c].at = "get_post_like_count" /\ pc'[c].id = P)
                   /\ (resp'.op = "get_post" /\ resp'.client = c /\ resp'.id = P)
                          => resp'.status = 404
      ]_vars

\* a post that had been commented on has just been deleted by its owner
C1_Witness ==
    /\ resp.op = "delete_post" /\ resp.status = 200
    /\ seq_comments > 0
    /\ ~HasPost(resp.id)
    /\ select_post_with_owner(resp.id) = {}

\* C2: in every reachable state every comment and every like references a post
\* that exists, also when add_comment_route or like_post runs concurrently with
\* the owner's delete_post.
C2_ChildrenReferenceExistingPost ==
    /\ \A k \in comments : HasPost(k.post_id)
    /\ \A l \in Rows(likes) : HasPost(l.post_id)

\* C3: in every reachable state the owner of every post and the author of every
\* comment and like is the handle of an existing user.
C3_AuthorsExist ==
    /\ \A p \in posts : HasUser(p.username)
    /\ \A k \in comments : HasUser(k.username)
    /\ \A l \in Rows(likes) : HasUser(l.username)

\* C4: in every reachable state the likes table holds at most one row for each
\* (post id, username) pair.
C4_OneLikePerPair == \A l \in Rows(likes) : CopiesIn(l, likes) = 1

\* two toggles of one user on one post raced to the INSERT and the second one
\* was refused by the primary key
C4_Witness ==
    /\ resp.op = "like_post" /\ resp.status = 500
    /\ like_conflict(resp.id, session[resp.client])

\* C5: toggle_like is an involution.  When client c toggles post P as user u
\* with nothing in between its SELECT and its write, the liked flag it returns
\* is the opposite of u's liked state before; and the toggle that follows with
\* nothing in between returns the opposite flag again and brings the likes
\* table back to what it was before the first call, so u's liked state, P's
\* like count and every other like are as before.
C5_ToggleInvolution ==
    [][\A c \in Clients, P \in PostIds :
         (/\ At(c, "toggle_like_write") /\ pc[c].id = P
          /\ pc'[c].at = "like_post_count"
          /\ pc[c].flag = (select_like(P, pc[c].username) # {}))
         => \E before \in BOOLEAN :
              /\ before = user_liked_post(P, pc[c].username)
              /\ pc'[c].flag = ~before
              /\ (user_liked_post(P, pc[c].username))' = ~before
              /\ (like_conflict(P, pc[c].username))' = ~before
              /\ \E count \in 0 .. BagCardinality(likes) :
                    /\ count = get_like_count(P)
                    /\ (BagCardinality(DeleteRows(
                            toggle_like_rows(~before, P, pc[c].username),
                            {l \in Rows(likes) : l.post_id # P})))' = count
              /\ \E table \in {likes} :
                    (toggle_like_rows(~before, P, pc[c].username))' = table
      ]_vars

\* a user has unliked a post that another user still likes
C5_Witness ==
    /\ resp.op = "like_post" /\ resp.status = 200 /\ ~resp.flag
    /\ resp.count > 0
    /\ ~user_liked_post(resp.id, session[resp.client])

\* C6: delete_post by a logged-in user who is not the owner of post P answers
\* 403 and leaves the store as it was, P stays retrievable by get_post, and a
\* post row goes away only in clear_all_data or in the delete_post of a client
\* whose session is the owner's.
C6_OnlyOwnerDeletes ==
    [][/\ \A c \in Clients, P \in PostIds :
            (/\ At(c, "idle") /\ session[c] # EMPTY
             /\ resp'.op = "delete_post" /\ resp'.client = c /\ resp'.id = P
             /\ \E p \in posts : p.id = P /\ p.username # session[c])
            => /\ resp'.status = 403
               /\ UNCHANGED db
               /\ \E row \in {p \in posts : p.id = P} :
                      (select_post_with_owner(P))' = {row}
       /\ \A p \in posts :
            p \notin posts'
            => \/ resp'.op = "clear_all_data"
               \/ \E c \in Clients : /\ At(c, "delete_post_commit") /\ pc[c].id = p.id
                                     /\ pc'[c].at = "idle"
                                     /\ session[c] = p.username
      ]_vars

\* C7: login on a handle that has no user row, with a first name that is not
\* empty once trimmed, goes on to create_user, which inserts the row (handle,
\* first name, empty portfolio URL) and answers 200 with returning = FALSE and
\* the stored row; a login on a handle that has a row answers 200 with
\* returning = TRUE and the stored row whatever first name it was given, binds
\* the session to the handle and leaves the users table as it was.
C7_LoginCreatesThenReturns ==
    [][\A c \in Clients :
         /\ (At(c, "idle") /\ pc'[c].at = "create_user")
                => /\ pc'[c].text # EMPTY /\ pc'[c].username # EMPTY
                   /\ ~HasUser(pc'[c].username)
                   /\ UNCHANGED <<users, session>>
         /\ (At(c, "create_user") /\ pc'[c].at = "create_user_read")
                => /\ ~HasUser(pc[c].username)
                   /\ users' = users (+)
                                 SetToBag({UserRow(pc[c].username, pc[c].text, EMPTY)})
         /\ (At(c, "create_user_read") /\ pc'[c].at = "idle" /\ resp'.status = 200)
                => /\ ~resp'.flag
                   /\ resp'.user = {u \in Rows(users) : u.username = pc[c].username}
                   /\ session'[c] = pc[c].username
                   /\ UNCHANGED users
         /\ (/\ At(c, "idle") /\ resp'.op = "login" /\ resp'.client = c
             /\ HasUser(resp'.username))
                => /\ resp'.status = 200 /\ resp'.flag
                   /\ resp'.user = {u \in Rows(users) : u.username = resp'.username}
                   /\ Cardinality(resp'.user) = 1
                   /\ session'[c] = resp'.username
                   /\ UNCHANGED users
      ]_vars

\* a login on an existing handle has answered returning = TRUE with the stored
\* row, which a profile update has changed since it was created
C7_Witness ==
    /\ resp.op = "login" /\ resp.status = 200 /\ resp.flag
    /\ session[resp.client] = resp.username
    /\ \E u \in resp.user : u.first_name = <<"B">> /\ u.portfolio_url # EMPTY

\* C8: update_profile by a logged-in user whose row exists replaces the stored
\* first_name only when the trimmed first_name argument is not empty, always
\* replaces the stored portfolio_url by the trimmed portfolio_url argument,
\* also by an empty one, and changes no other row; the profile it returns is
\* the stored row.
C8_UpdateProfileAsymmetric ==
    [][\A c \in Clients :
         /\ (At(c, "idle") /\ pc'[c].at = "update_profile_read" /\ HasUser(session[c]))
                => \E old \in Rows(users) :
                     /\ old.username = session[c]
                     /\ users' = DeleteRows(users, {old}) (+) SetToBag({
                            UserRow(old.username,
                                    IF pc'[c].text # EMPTY THEN pc'[c].text
                                                           ELSE old.first_name,
                                    pc'[c].url)})
         /\ (At(c, "update_profile_read") /\ pc'[c].at = "idle")
                => /\ resp'.op = "update_profile" /\ resp'.status = 200
                   /\ resp'.user = {u \in Rows(users') : u.username = pc[c].username}
      ]_vars

\* an update with an empty first_name and an empty portfolio_url has been
\* committed on a row: the name is still there, the URL is gone
C8_Witness ==
    \E c \in Clients :
        /\ At(c, "update_profile_read")
        /\ pc[c].text = EMPTY /\ pc[c].url = EMPTY
        /\ \E u \in Rows(users) : /\ u.username = pc[c].username
                                  /\ u.first_name # EMPTY
                                  /\ u.portfolio_url = EMPTY

C10_CurrentUser ==
    [][\A c \in Clients :
         /\ (At(c, "idle") /\ resp'.op = "current_user" /\ resp'.client = c)
                => /\ session[c] = EMPTY => resp'.status = 401
                   /\ (session[c] # EMPTY /\ ~HasUser(session[c])) => resp'.status = 404
                   /\ HasUser(session[c])
                         => /\ resp'.status = 200
                            /\ resp'.user = {u \in Rows(users) : u.username = session[c]}
                            /\ Cardinality(resp'.user) = 1
                   /\ resp'.status # 200 => resp'.user = {}
         /\ session'[c] # session[c]
                => /\ resp'.client = c
                   /\ \/ /\ resp'.op = "login" /\ resp'.status = 200
                         /\ session'[c] = resp'.username /\ resp'.username # EMPTY
                      \/ /\ resp'.op \in {"logout", "clear_all_data"}
                         /\ session'[c] = EMPTY
         /\ (resp'.op = "login" /\ resp'.client = c /\ resp'.status = 200
             /\ pc[c].at \in {"idle", "create_user_read"} /\ pc'[c].at = "idle")
                => session'[c] = resp'.username
      ]_vars

\* current_user has answered 404 to a client whose user was wiped by the other
\* client while a second user exists
C10_Witness ==
    /\ resp.op = "current_user" /\ resp.status = 404
    /\ session[resp.client] # EMPTY
    /\ users # EmptyBag

\* this step is the first step of a request of client c: it answers c or takes
\* c's handler to its next statement
TakesUp(c) == At(c, "idle") /\ (resp'.client = c \/ pc'[c].at # "idle")

\* the four tables
tables == <<users, posts, comments, likes>>

\* C11: a client has no session at the start and after each of its logouts, and
\* while it has none every update_profile, create_post_route, like_post,
\* add_comment_route, delete_post and delete_comment it sends, whatever the
\* arguments, is answered 401 in its first step and leaves the four tables as
\* they were.
C11_NoSessionIsUnauthenticated ==
    [][\A c \in Clients :
         /\ (At(c, "idle") /\ resp'.op = "logout" /\ resp'.client = c)
                => resp'.status = 200 /\ session'[c] = EMPTY
         /\ (session[c] = EMPTY /\ TakesUp(c))
                => /\ \A f \in FirstNameInputs, p \in PortfolioInputs :
                         update_profile(c, f, p)
                         => /\ resp'.op = "update_profile" /\ resp'.status = 401
                            /\ resp'.client = c /\ UNCHANGED tables
                   /\ \A t \in TitleInputs :
                         create_post_route(c, t)
                         => /\ resp'.op = "create_post" /\ resp'.status = 401
                            /\ resp'.client = c /\ UNCHANGED tables
                   /\ \A P \in PostIds :
                         like_post(c, P)
                         => /\ resp'.op = "like_post" /\ resp'.status = 401
                            /\ resp'.client = c /\ UNCHANGED tables
                   /\ \A P \in PostIds, k \in ContentInputs :
                         add_comment_route(c, P, k)
                         => /\ resp'.op = "add_comment" /\ resp'.status = 401
                            /\ resp'.client = c /\ UNCHANGED tables
                   /\ \A P \in PostIds :
                         delete_post(c, P)
                         => /\ resp'.op = "delete_post" /\ resp'.status = 401
                            /\ resp'.client = c /\ UNCHANGED tables
                   /\ \A K \in CommentIds :
                         delete_comment(c, K)
                         => /\ resp'.op = "delete_comment" /\ resp'.status = 401
                            /\ resp'.client = c /\ UNCHANGED tables
      ]_vars

\* a client that logged out has been refused while the four tables hold rows
C11_Witness ==
    /\ resp.status = 401 /\ session[resp.client] = EMPTY
    /\ resp.op \in {"update_profile", "create_post", "like_post", "add_comment",
                    "delete_post", "delete_comment"}
    /\ users # EmptyBag /\ posts # {} /\ comments # {} /\ likes # EmptyBag

\* C12: delete_comment by a client with a session answers 404 when no comment
\* has the id, answers 403 when the comment's author is not the session user,
\* also when the session user owns the post commented on, and leaves the tables
\* as they were in both cases; otherwise it goes on to its DELETE, which
\* answers 200, removes the comment of that id and changes no other comment, no
\* post, no like and no user.
C12_DeleteComment ==
    [][\A c \in Clients :
         /\ (session[c] # EMPTY /\ TakesUp(c))
                => \A K \in CommentIds :
                     delete_comment(c, K)
                     => /\ UNCHANGED tables
                        /\ IF \A k \in comments : k.id # K
                           THEN /\ resp'.op = "delete_comment" /\ resp'.status = 404
                                /\ resp'.client = c
                           ELSE IF \E k \in comments : k.id = K /\ k.username # session[c]
                           THEN /\ resp'.op = "delete_comment" /\ resp'.status = 403
                                /\ resp'.client = c
                           ELSE /\ pc'[c].at = "delete_comment_commit" /\ pc'[c].id = K
         /\ (At(c, "delete_comment_commit") /\ pc'[c].at = "idle")
                => /\ resp'.op = "delete_comment" /\ resp'.status = 200
                   /\ resp'.id = pc[c].id
                   /\ comments' = {k \in comments : k.id # pc[c].id}
                   /\ UNCHANGED <<users, posts, likes>>
      ]_vars

\* the owner of a post has been refused the deletion of another user's comment
\* on it, and the comment is in place
C12_Witness ==
    /\ resp.op = "delete_comment" /\ resp.status = 403
    /\ \E k \in comments :
          /\ k.id = resp.id /\ k.username # session[resp.client]
          /\ \E q \in posts : q.id = k.post_id /\ q.username = session[resp.client]

\* C13: in every step every stored user row stays as it is, unless the step is
\* clear_all_data, or is the UPDATE step of an update_profile sent under a
\* session bound to that row's handle, which keeps a row of that handle; so
\* login, create_user, and every request on posts, comments and likes change
\* and remove no user row.
C13_UsersChangeOnlyByProfile ==
    [][\A u \in Rows(users) :
         \/ CopiesIn(u, users') = CopiesIn(u, users)
         \/ resp'.op = "clear_all_data"
         \/ /\ \E c \in Clients : /\ At(c, "idle")
                                  /\ pc'[c].at = "update_profile_read"
                                  /\ session[c] = u.username
            /\ \E v \in Rows(users') : v.username = u.username
      ]_vars

\* a profile update has changed one user's row while another user's row and a
\* post are stored
C13_Witness ==
    /\ resp.op = "update_profile" /\ resp.status = 200
    /\ \E u \in Rows(users) : u.username = resp.username /\ u.first_name = <<"B">>
    /\ \E v \in Rows(users) : v.username # resp.username /\ v.portfolio_url = EMPTY
    /\ posts # {} /\ likes # EmptyBag

\* C14: the list get_posts answers with holds every stored post once, newest
\* first, each with the number of its likes, the number of its comments and
\* whether the session user of the caller likes it; stated where no other
\* request runs between the SELECT of get_posts and its answer.
C14_ListPostsReturnsAllPosts ==
    [][\A c \in Clients :
         (resp'.op = "get_posts" /\ resp'.client = c /\ pc'[c].at = "idle")
         => LET listed == resp'.posts
            IN  /\ resp'.status = 200
                /\ \A p \in posts :
                      Cardinality({i \in DOMAIN listed : listed[i].id = p.id}) = 1
                /\ \A i \in DOMAIN listed :
                      /\ \E p \in posts : /\ p.id = listed[i].id
                                          /\ p.username = listed[i].username
                                          /\ p.title = listed[i].title
                      /\ listed[i].like_count = get_like_count(listed[i].id)
                      /\ listed[i].comment_count = get_comment_count(listed[i].id)
                      /\ listed[i].liked_by_user =
                             (/\ session[c] # EMPTY
                              /\ BagIn(LikeRow(listed[i].id, session[c]), likes))
                /\ \A i, j \in DOMAIN listed : i < j => listed[i].id > listed[j].id
      ]_vars

\* no like and no comment refers to the post id (in the state after the step)
Childless(post_id) ==
    /\ \A l \in Rows(likes) : l.post_id # post_id
    /\ \A k \in comments : k.post_id # post_id

C16_DeletePostAtomic ==
    [][/\ \A c \in Clients :
            /\ (At(c, "idle") /\ pc'[c].at = "delete_post_commit") => UNCHANGED tables
            /\ (At(c, "delete_post_commit") /\ pc'[c].at = "idle")
                   => \E P \in {pc[c].id} : (~HasPost(P))' /\ (Childless(P))'
       /\ \A P \in PostIds :
            (/\ \E p \in posts' : p.id = P
             /\ \/ \E l \in Rows(likes) : l.post_id = P /\ ~BagIn(l, likes')
                \/ \E k \in comments : k.post_id = P /\ k \notin comments')
            => \A c \in Clients : ~(At(c, "delete_post_commit") /\ pc'[c].at = "idle")
      ]_vars

\* delete_post has committed while another client's get_post, which found the
\* post, has its reads of the likes and comments still to make
C16_Witness ==
    /\ resp.op = "delete_post" /\ resp.status = 200
    /\ seq_comments > 0 /\ comments = {}
    /\ \E d \in Clients \ {resp.client} :
          /\ pc[d].at \in {"get_post_like_count", "get_post_liked", "get_post_comments"}
          /\ pc[d].id = resp.id

\* C17: of the logins that saw a handle absent and go on to create it with
\* their first names, the first INSERT stores the row (handle, its own first
\* name, empty URL) and that login answers 200 with returning = FALSE, that row
\* and a session bound to the handle; every later INSERT is refused, and that
\* login answers 500, leaves the users table and its own session as they were
\* and has no session bound to the handle; no handle ever has two rows.
C17_LoginRace ==
    [][/\ \A c \in Clients :
            /\ (At(c, "create_user") /\ pc'[c].at = "idle")
                   => /\ HasUser(pc[c].username)
                      /\ resp'.op = "login" /\ resp'.status = 500 /\ resp'.client = c
                      /\ UNCHANGED users
                      /\ session'[c] = session[c]
                      /\ session'[c] # pc[c].username
            /\ (At(c, "create_user") /\ pc'[c].at = "create_user_read")
                   => /\ ~HasUser(pc[c].username)
                      /\ pc[c].text # EMPTY
                      /\ users' = users (+)
                                    SetToBag({UserRow(pc[c].username, pc[c].text, EMPTY)})
            /\ (At(c, "create_user_read") /\ pc'[c].at = "idle")
                   => /\ resp'.op = "login" /\ resp'.status = 200 /\ resp'.client = c
                      /\ ~resp'.flag
                      /\ resp'.user = {UserRow(pc[c].username, pc[c].text, EMPTY)}
                      /\ session'[c] = pc[c].username
                      /\ UNCHANGED users
       /\ \A u \in Rows(users') :
            /\ CopiesIn(u, users') = 1
            /\ \A v \in Rows(users') : v.username = u.username => v = u
      ]_vars

\* two logins raced for a handle: one has been answered 500 and has no session,
\* the other stored its row, with the first name B, and is still to answer
C17_Witness ==
    /\ resp.op = "login" /\ resp.status = 500
    /\ session[resp.client] = EMPTY
    /\ \E d \in Clients \ {resp.client} :
          /\ At(d, "create_user_read") /\ pc[d].username = resp.username
          /\ pc[d].text = <<"B">>
          /\ Rows(users) = {UserRow(resp.username, <<"B">>, EMPTY)}

\* C18: a like_post of a logged-in client that found its post, and whose post
\* is still stored when it writes, never ends in a store error: its write goes
\* on to the count with liked = TRUE exactly when the step added a like and
\* liked = FALSE exactly when the step removed one, and it answers 200 with
\* that flag, whatever other like_post requests run in between.
C18_ToggleNeverFails ==
    [][\A c \in Clients :
         /\ (/\ At(c, "toggle_like_write") /\ pc'[c].at # "toggle_like_write"
             /\ HasPost(pc[c].id))
                => /\ pc'[c].at = "like_post_count"
                   /\ pc'[c].flag <=> (BagCardinality(likes') = BagCardinality(likes) + 1)
                   /\ ~pc'[c].flag <=> (BagCardinality(likes') + 1 = BagCardinality(likes))
         /\ (At(c, "like_post_count") /\ pc'[c].at = "idle")
                => /\ resp'.op = "like_post" /\ resp'.status = 200
                   /\ resp'.flag = pc[c].flag
      ]_vars

\* C19: create_post_route of a client with a session and a title that is empty
\* once trimmed answers 400 and leaves the store as it was; add_comment_route
\* of a client with a session answers 404 when no post has the id, whatever the
\* content, answers 400 when the post is stored and the content is empty once
\* trimmed, and leaves the store as it was in both cases, and otherwise goes on
\* to its INSERT; no stored post has an empty title and no stored comment an
\* empty content.
C19_RejectedWrites ==
    [][/\ \A c \in Clients :
            (session[c] # EMPTY /\ TakesUp(c))
            => /\ \A t \in TitleInputs :
                     (Strip(t) = EMPTY /\ create_post_route(c, t))
                     => /\ resp'.op = "create_post" /\ resp'.status = 400
                        /\ resp'.client = c /\ UNCHANGED db
               /\ \A P \in PostIds, k \in ContentInputs :
                     add_comment_route(c, P, k)
                     => /\ UNCHANGED db
                        /\ IF ~HasPost(P)
                           THEN /\ resp'.op = "add_comment" /\ resp'.status = 404
                                /\ resp'.client = c
                           ELSE IF Strip(k) = EMPTY
                           THEN /\ resp'.op = "add_comment" /\ resp'.status = 400
                                /\ resp'.client = c
                           ELSE /\ pc'[c].at = "add_comment" /\ pc'[c].id = P
                                /\ pc'[c].text = Strip(k)
       /\ \A p \in posts' : p.title # EMPTY
       /\ \A k \in comments' : k.content # EMPTY
      ]_vars

\* a comment of blanks on a stored post has been refused and the post has no
\* comment
C19_Witness ==
    /\ resp.op = "add_comment" /\ resp.status = 400
    /\ session[resp.client] # EMPTY
    /\ HasPost(resp.id) /\ get_comment_count(resp.id) = 0
    /\ seq_comments = 0

\* C20: get_post answers 404 only for an id that has no post row: whenever it
\* has just answered for the id of a post that is stored, which a
\* create_post_route has returned and nothing has deleted or wiped since, the
\* answer is 200.
C20_StoredPostIsRetrievable ==
    (/\ resp.op = "get_post" /\ HasPost(resp.id)
     /\ \A d \in Clients : ~(At(d, "create_post_read") /\ pc[d].id = resp.id))
    => resp.status = 200

====
